---- MODULE Spec2Model ----
(***************************************************************************)
(* Model of patchy's `run` command (src/commands/run.rs) and of the git    *)
(* helpers it drives (src/git_commands.rs).  The repository is the shared  *)
(* state: its remotes, its branch refs, HEAD, the merge state of the index *)
(* and the configuration directory.  Every git invocation is one step that *)
(* either succeeds (and has git's effect) or fails (and leaves the         *)
(* repository as it was).                                                  *)
(***************************************************************************)
EXTENDS Integers, Sequences, FiniteSets, TLC

(* ---------------------------- bounds ----------------------------------- *)
\* number of pull requests the configuration lists
NumPRs == 2
\* largest number of paths one merge leaves in conflict
MaxConflicts == 2

(* ---------------------------- names ------------------------------------ *)
\* with_uuid(&config.repo): the ephemeral remote
local_remote == "repo-uuid"
\* with_uuid(&config.remote_branch): the ephemeral work branch
local_branch == "upstream-uuid"
\* with_uuid("temp-branch")
temporary_branch == "temp-branch-uuid"
\* config.local_branch: the branch the user wants overwritten
config_local_branch == "patched"
\* a branch of the user's that the run has no business with
other_branch == "main"

\* paths are sequences of characters, so that suffix tests are computed
PathA == <<"a", ".", "m", "d">>
PathB == <<"b", ".", "r", "s">>
PathC == <<"c", ".", "m", "d">>
PathD == <<"m", "d">>
Paths == {PathA, PathB, PathC, PathD}
DotMd == <<".", "m", "d">>
DotPatch == <<".", "p", "a", "t", "c", "h">>

\* str::ends_with
ends_with(s, suffix) ==
    /\ Len(s) >= Len(suffix)
    /\ SubSeq(s, Len(s) - Len(suffix) + 1, Len(s)) = suffix

\* commits are labelled by what made them
Commit(kind, n) == [k |-> kind, n |-> n]
BaseHistory == <<Commit("base", 0)>>
OldHistory == <<Commit("base", 0), Commit("old", 0)>>
UpstreamHistory == <<Commit("upstream", 0)>>
\* what the fetch can bring: the upstream branch, which may already hold the
\* merge of one of the configured pull requests
UpstreamHistories ==
    {UpstreamHistory} \cup {Append(UpstreamHistory, Commit("pr", n)) : n \in 1..NumPRs}

\* all orders in which a set of paths can be listed
Orderings(S) ==
    {q \in [1..Cardinality(S) -> S] : \A a, b \in 1..Cardinality(S) : a # b => q[a] # q[b]}

ConflictSets == {S \in SUBSET Paths : Cardinality(S) <= MaxConflicts}

\* the `.patchy` entries the run backs up, as file names
FileConfig == <<"c", "o", "n", "f", "i", "g", ".", "t", "o", "m", "l">>
FileFix == <<"f", "i", "x", ".", "p", "a", "t", "c", "h">>
FileShort == <<"a", ".", "t", "x", "t">>
FileOther == <<"f", "i", "x", ".", "p", "h", "o", "t", "o">>
PatchFix == <<"f", "i", "x">>
\* backup_files(config_files): the directory listings the model starts from
BackupLists ==
    {<<FileConfig>>, <<FileConfig, FileFix>>, <<FileFix, FileShort, FileConfig>>,
     <<FileOther, FileConfig>>}
\* config.patches is an Option: <<>> is None, <<S>> is Some(S)
None == <<>>
Some(x) == <<x>>
PatchesOptions == {None, Some({PatchFix})}

\* a git command can succeed only where git would accept it; it can always fail
Outcomes(possible) == IF possible THEN {TRUE, FALSE} ELSE {FALSE}

VARIABLES
    pc,               \* position of `run`
    remotes,          \* the repository's remotes
    refs,             \* branch name -> history of the branch
    head,             \* the branch that is checked out
    merging,          \* a merge is in progress (MERGE_HEAD exists)
    unmerged,         \* paths of the index that are in conflict
    ours,             \* paths resolved to our side and staged
    staged,           \* pull request whose changes are staged, 0 if none
    config_dir,       \* the configuration directory exists
    previous_branch,  \* run.rs: previous_branch
    pr,               \* index of the pull request being processed
    files_with_conflicts, \* rest of the listing merge_into_main iterates
    pre_merge,        \* index state when merge_into_main was entered
    backed_up_files,  \* run.rs: backed_up_files (names)
    patches,          \* config.patches
    overflow_checks,  \* the build panics on integer overflow
    file,             \* index of the backed-up file being restored
    attempted,        \* pull requests whose fetch was attempted
    reported,         \* pull requests for which fail! was printed
    printed,          \* the manual command printed on a declined prompt
    refs0,            \* the branch refs when `run` was entered
    last_ok,          \* the last external operation (git, fs, http) succeeded
    confirmation,     \* the answer to the prompt: "unasked", "yes", "no"
    exit_code,        \* the status std::process::exit was called with, -1 if it was not
    result,           \* how `run` ended: "running", "Ok", "Err", "Exit1", "Panic"
    err,              \* the error `run` returned
    output,           \* get_git_output: the Output of the finished process
    args,             \* get_git_output: the argument vector of the command
    returned,         \* get_git_output: <<>> before the call, <<result>> after it
    arg,              \* extract_value_from_flag: arg
    flag,             \* extract_value_from_flag: flag
    extracted,        \* extract_value_from_flag: <<>> before the call, <<result>> after it
    gen_pc,           \* position of `gen_patch`
    command_args,     \* gen_patch: args as given
    args_iter,        \* gen_patch: what the peekable iterator has left
    no_more_flags,    \* gen_patch: no_more_flags
    commit_hashes_with_maybe_custom_patch_filenames, \* gen_patch: the vector
    config_path_exists, \* gen_patch: config_path.exists()
    patch_commit,     \* index of the commit the second loop works on
    commit_msg,       \* what `git log` gave for that commit, None if it failed
    patch_files,      \* names of the files created under config_path
    gen_reported,     \* indexes of the commits fail! was printed for
    gen_result        \* how gen_patch ended: "running", "Ok", "Err", "Exit1"

runvars == <<pc, remotes, refs, head, merging, unmerged, ours, staged, config_dir,
             previous_branch, pr, files_with_conflicts, pre_merge,
             backed_up_files, patches, overflow_checks, file, attempted, reported,
             printed, refs0, last_ok, confirmation, exit_code, result, err>>
outputvars == <<output, args, returned>>
flagvars == <<arg, flag, extracted>>
genvars == <<gen_pc, command_args, args_iter, no_more_flags,
             commit_hashes_with_maybe_custom_patch_filenames, config_path_exists,
             patch_commit, commit_msg, patch_files, gen_reported, gen_result>>
\* the state of the functions `run` does not go through
elsewhere == <<outputvars, flagvars, genvars>>
vars == <<runvars, elsewhere>>

index == <<merging, unmerged, ours, staged>>
config == <<backed_up_files, patches, overflow_checks, refs0>>
prloop == <<pr, files_with_conflicts, pre_merge, attempted, reported>>
outcome == <<result, err>>
prompt == <<printed, confirmation, exit_code>>

Branches == DOMAIN refs
remotes0 == {"origin"}

\* remove a branch from the refs
DropBranch(r, b) == [x \in (DOMAIN r) \ {b} |-> r[x]]
\* create or overwrite a branch
SetBranch(r, b, h) == [x \in (DOMAIN r) \cup {b} |-> IF x = b THEN h ELSE r[x]]

\* get_git_output is not being called
OutputIdle ==
    /\ output = [status |-> 0, stdout |-> <<>>, stderr |-> <<>>]
    /\ args = <<>>
    /\ returned = <<>>

\* extract_value_from_flag is not being called
FlagIdle ==
    /\ arg = <<>>
    /\ flag = [short |-> <<>>, long |-> <<>>]
    /\ extracted = <<>>

\* gen_patch is not running
GenPatchIdle ==
    /\ gen_pc = "idle"
    /\ command_args = <<>>
    /\ args_iter = <<>>
    /\ no_more_flags = FALSE
    /\ commit_hashes_with_maybe_custom_patch_filenames = <<>>
    /\ config_path_exists = TRUE
    /\ patch_commit = 1
    /\ commit_msg = None
    /\ patch_files = {}
    /\ gen_reported = {}
    /\ gen_result = "running"

Init ==
    /\ OutputIdle
    /\ FlagIdle
    /\ GenPatchIdle
    /\ pc = "remote_add"
    /\ remotes = remotes0
    /\ refs \in {[b \in {other_branch, config_local_branch} |->
                     IF b = other_branch THEN BaseHistory ELSE OldHistory],
                 [b \in {other_branch} |-> BaseHistory]}
    /\ refs0 = refs
    /\ head \in DOMAIN refs
    /\ merging = FALSE
    /\ unmerged = {}
    /\ ours = {}
    /\ staged = 0
    /\ config_dir = TRUE
    /\ previous_branch = ""
    /\ pr = 1
    /\ files_with_conflicts = <<>>
    /\ pre_merge = <<FALSE, {}, {}, 0>>
    /\ backed_up_files \in BackupLists
    /\ patches \in PatchesOptions
    /\ overflow_checks \in BOOLEAN
    /\ file = 1
    /\ attempted = {}
    /\ reported = {}
    /\ printed = <<>>
    /\ last_ok = TRUE
    /\ confirmation = "unasked"
    /\ exit_code = -1
    /\ result = "running"
    /\ err = ""

\* `?` on a failed command: run returns the error
Fail(e) ==
    /\ pc' = "done"
    /\ result' = "Err"
    /\ err' = e

(* ------------------ add_remote_branch, git_commands.rs:43 -------------- *)
\* git remote add <local_remote> <remote_remote>
RemoteAdd ==
    /\ pc = "remote_add"
    /\ \E ok \in Outcomes(local_remote \notin remotes) :
          /\ last_ok' = ok
          /\ remotes' = IF ok THEN remotes \cup {local_remote} ELSE remotes
          /\ pc' = IF ok THEN "fetch" ELSE "remote_add_failed"
    /\ UNCHANGED <<refs, head, index, config_dir, previous_branch, prloop,
                   config, file, prompt, outcome, elsewhere>>

\* Err arm of remote add: git remote remove <local_remote>, then the error
RemoteAddCleanup ==
    /\ pc = "remote_add_failed"
    /\ \E ok \in Outcomes(local_remote \in remotes) :
          /\ last_ok' = ok
          /\ remotes' = IF ok THEN remotes \ {local_remote} ELSE remotes
          /\ Fail(IF ok THEN "Could not add remote" ELSE "remote remove")
    /\ UNCHANGED <<refs, head, index, config_dir, previous_branch, prloop,
                   config, file, prompt, elsewhere>>

\* git fetch <remote_remote> <remote_branch>:<local_branch>
Fetch ==
    /\ pc = "fetch"
    /\ \E ok \in BOOLEAN :
          /\ last_ok' = ok
          /\ IF ok
             THEN \E fetched \in UpstreamHistories :
                     refs' = SetBranch(refs, local_branch, fetched)
             ELSE UNCHANGED refs
          /\ pc' = IF ok THEN "rev_parse" ELSE "fetch_failed"
    /\ UNCHANGED <<remotes, head, index, config_dir, previous_branch, prloop,
                   config, file, prompt, outcome, elsewhere>>

\* Err arm of fetch: git branch -D <local_branch>, then the error
FetchCleanup ==
    /\ pc = "fetch_failed"
    /\ \E ok \in Outcomes(local_branch \in Branches /\ head # local_branch) :
          /\ last_ok' = ok
          /\ refs' = IF ok THEN DropBranch(refs, local_branch) ELSE refs
          /\ Fail(IF ok THEN "Could not fetch branch from remote" ELSE "branch -D")
    /\ UNCHANGED <<remotes, head, index, config_dir, previous_branch, prloop,
                   config, file, prompt, elsewhere>>

(* ------------------ checkout_from_remote, git_commands.rs:68 ----------- *)
\* git rev-parse --abbrev-ref HEAD
RevParse ==
    /\ pc = "rev_parse"
    /\ \E ok \in BOOLEAN :
          /\ last_ok' = ok
          /\ IF ok
             THEN /\ previous_branch' = head
                  /\ pc' = "checkout"
                  /\ UNCHANGED outcome
             ELSE /\ Fail("rev-parse")
                  /\ UNCHANGED previous_branch
    /\ UNCHANGED <<remotes, refs, head, index, config_dir, prloop, config,
                   file, prompt, elsewhere>>

\* Checkout that reports success without moving HEAD
Checkout_NoSwitch ==
    /\ pc = "checkout"
    /\ \E ok \in Outcomes(local_branch \in Branches) :
          /\ last_ok' = ok
          /\ pc' = IF ok THEN "pr_fetch" ELSE "checkout_failed_branch"
          /\ config_dir' \in IF ok THEN BOOLEAN ELSE {config_dir}
    /\ UNCHANGED <<remotes, refs, head, index, previous_branch, prloop, config,
                   file, prompt, outcome, elsewhere>>

\* git checkout <local_branch>; the work tree follows the branch, so the
\* configuration directory stays only if the new tree (or an untracked copy) has it
Checkout ==
    /\ pc = "checkout"
    /\ \E ok \in Outcomes(local_branch \in Branches) :
          /\ last_ok' = ok
          /\ IF ok
             THEN /\ head' = local_branch
                  /\ config_dir' \in BOOLEAN
                  /\ pc' = "pr_fetch"
             ELSE /\ pc' = "checkout_failed_branch"
                  /\ UNCHANGED <<head, config_dir>>
    /\ UNCHANGED <<remotes, refs, index, previous_branch, prloop, config,
                   file, prompt, outcome, elsewhere>>

\* Err arm of checkout: git branch -D <branch>
CheckoutCleanupBranch ==
    /\ pc = "checkout_failed_branch"
    /\ \E ok \in Outcomes(local_branch \in Branches /\ head # local_branch) :
          /\ last_ok' = ok
          /\ IF ok
             THEN /\ refs' = DropBranch(refs, local_branch)
                  /\ pc' = "checkout_failed_remote"
                  /\ UNCHANGED outcome
             ELSE /\ Fail("branch -D")
                  /\ UNCHANGED refs
    /\ UNCHANGED <<remotes, head, index, config_dir, previous_branch, prloop,
                   config, file, prompt, elsewhere>>

\* Err arm of checkout: git remote remove <remote>, then the error
CheckoutCleanupRemote ==
    /\ pc = "checkout_failed_remote"
    /\ \E ok \in Outcomes(local_remote \in remotes) :
          /\ last_ok' = ok
          /\ remotes' = IF ok THEN remotes \ {local_remote} ELSE remotes
          /\ Fail(IF ok THEN "Could not checkout branch" ELSE "remote remove")
    /\ UNCHANGED <<refs, head, index, config_dir, previous_branch, prloop,
                   config, file, prompt, elsewhere>>

(* ------------------ the pull-request loop, run.rs:65 ------------------- *)
\* `continue` / end of the loop body: the next pull request, or the loop's exit
NextPullRequest(n) == IF n + 1 > NumPRs THEN "create_dir" ELSE "pr_fetch"

\* fetch_pull_request(&config.repo, pull_request, &client): a read-only lookup
FetchPullRequest ==
    /\ pc = "pr_fetch"
    /\ pr <= NumPRs
    /\ attempted' = attempted \cup {pr}
    /\ \E ok \in BOOLEAN :
          /\ last_ok' = ok
          /\ IF ok
             THEN /\ pc' = "merge"
                  /\ UNCHANGED <<pr, reported>>
             ELSE /\ reported' = reported \cup {pr}
                  /\ pr' = pr + 1
                  /\ pc' = NextPullRequest(pr)
    /\ UNCHANGED <<remotes, refs, head, index, config_dir, previous_branch,
                   files_with_conflicts, pre_merge, config, file, prompt, outcome,
                   elsewhere>>

\* a failed merge that returns from `run` instead of `continue`
MergeErr_Return ==
    /\ reported' = reported \cup {pr}
    /\ pr' = pr
    /\ pc' = "done"
    /\ files_with_conflicts' = <<>>

\* a failed merge after which the loop passes over the next pull request
MergeErr_SkipNext ==
    /\ reported' = reported \cup {pr}
    /\ pr' = pr + 2
    /\ pc' = NextPullRequest(pr)
    /\ files_with_conflicts' = <<>>

\* merge_into_main returned Err: merge_pull_request fails, run prints fail! and continues
MergeErr ==
    /\ reported' = reported \cup {pr}
    /\ pr' = pr + 1
    /\ pc' = NextPullRequest(pr)
    /\ files_with_conflicts' = <<>>

\* where the `for` over the listing goes next
AfterListing(listing) ==
    IF listing = <<>> THEN "pr_commit"
    ELSE IF ends_with(Head(listing), DotMd) THEN "checkout_ours"
    ELSE "merge_abort"

(* ------------------ merge_into_main, git_commands.rs:83 ---------------- *)
\* the checked-out branch already holds the merge of the pull request
AlreadyMerged == Commit("pr", pr) \in {refs[head][n] : n \in 1..Len(refs[head])}

\* the conflicts a merge can stop on: none when there is nothing to merge
MergeConflicts == IF AlreadyMerged THEN {{}} ELSE ConflictSets

\* git merge <branch> --no-commit --no-ff; with nothing to merge it prints
\* "Already up to date." and exits zero with the index untouched
Merge ==
    /\ pc = "merge"
    /\ pre_merge' = <<merging, unmerged, ours, staged>>
    /\ \E ok \in Outcomes(~merging) :
          /\ last_ok' = ok
          /\ IF ok
             THEN /\ merging' = ~AlreadyMerged
                  /\ staged' = IF AlreadyMerged THEN staged ELSE pr
                  /\ pc' = "pr_commit"
                  /\ UNCHANGED <<unmerged, ours>>
             ELSE /\ pc' = "diff"
                  /\ IF merging
                     THEN UNCHANGED <<merging, unmerged, ours, staged>>
                     ELSE \E S \in MergeConflicts :
                             /\ unmerged' = S
                             /\ merging' = (S # {})
                             /\ staged' = IF S # {} THEN pr ELSE staged
                             /\ UNCHANGED ours
    /\ UNCHANGED <<remotes, refs, head, config_dir, previous_branch, pr,
                   files_with_conflicts, attempted, reported, config, file,
                   prompt, outcome, elsewhere>>

\* git diff --name-only --diff-filter=U
Diff ==
    /\ pc = "diff"
    /\ \E ok \in BOOLEAN :
          /\ last_ok' = ok
          /\ IF ok
             THEN \E listing \in Orderings(unmerged) :
                     /\ files_with_conflicts' = listing
                     /\ pc' = AfterListing(listing)
                     /\ UNCHANGED <<pr, reported>>
             ELSE MergeErr
    /\ UNCHANGED <<remotes, refs, head, index, config_dir, previous_branch,
                   pre_merge, attempted, config, file, prompt, outcome,
                   elsewhere>>

\* git checkout --ours <file_with_conflict>
CheckoutOurs ==
    /\ pc = "checkout_ours"
    /\ \E ok \in Outcomes(Head(files_with_conflicts) \in unmerged) :
          /\ last_ok' = ok
          /\ IF ok
             THEN /\ pc' = "add_path"
                  /\ UNCHANGED <<pr, reported, files_with_conflicts>>
             ELSE MergeErr
    /\ UNCHANGED <<remotes, refs, head, index, config_dir, previous_branch,
                   pre_merge, attempted, config, file, prompt, outcome,
                   elsewhere>>

\* git add <file_with_conflict>
AddPath ==
    /\ pc = "add_path"
    /\ \E ok \in BOOLEAN :
          /\ last_ok' = ok
          /\ IF ok
             THEN /\ unmerged' = unmerged \ {Head(files_with_conflicts)}
                  /\ ours' = ours \cup {Head(files_with_conflicts)}
                  /\ files_with_conflicts' = Tail(files_with_conflicts)
                  /\ pc' = AfterListing(Tail(files_with_conflicts))
                  /\ UNCHANGED <<pr, reported>>
             ELSE /\ MergeErr
                  /\ UNCHANGED <<unmerged, ours>>
    /\ UNCHANGED <<remotes, refs, head, merging, staged, config_dir,
                   previous_branch, pre_merge, attempted, config, file,
                   prompt, outcome, elsewhere>>

\* git merge --abort, then Err("Unresolved conflict in ..")
MergeAbort ==
    /\ pc = "merge_abort"
    /\ \E ok \in Outcomes(merging) :
          /\ last_ok' = ok
          /\ merging' = IF ok THEN FALSE ELSE merging
          /\ unmerged' = IF ok THEN {} ELSE unmerged
          /\ ours' = IF ok THEN {} ELSE ours
          /\ staged' = IF ok THEN 0 ELSE staged
    /\ MergeErr
    /\ UNCHANGED <<remotes, refs, head, config_dir, previous_branch,
                   pre_merge, attempted, config, file, prompt, outcome,
                   elsewhere>>

\* merge_pull_request after merge_into_main returned Ok: the merge was left
\* uncommitted (--no-commit), so the caller commits it; git refuses to commit
\* unmerged paths, and has nothing to commit when nothing was merged
CommitPullRequest ==
    /\ pc = "pr_commit"
    /\ \E ok \in Outcomes(unmerged = {} /\ (merging \/ staged # 0)) :
          /\ last_ok' = ok
          /\ IF ok
             THEN /\ refs' = SetBranch(refs, head, Append(refs[head], Commit("pr", pr)))
                  /\ merging' = FALSE
                  /\ ours' = {}
                  /\ staged' = 0
                  /\ UNCHANGED <<unmerged, reported>>
             ELSE /\ reported' = reported \cup {pr}
                  /\ UNCHANGED <<refs, index>>
    /\ pr' = pr + 1
    /\ pc' = NextPullRequest(pr)
    /\ UNCHANGED <<remotes, head, config_dir, previous_branch,
                   files_with_conflicts, pre_merge, attempted, config, file,
                   prompt, outcome, elsewhere>>

(* ------------------ recreate the directory, run.rs:100 ----------------- *)
\* fs::create_dir(root.join(CONFIG_ROOT)): fails if the directory exists
CreateDir ==
    /\ pc = "create_dir"
    /\ pr > NumPRs
    /\ \E ok \in Outcomes(~config_dir) :
          /\ last_ok' = ok
          /\ config_dir' = IF ok THEN TRUE ELSE config_dir
          /\ pc' = IF ok THEN "restore_backup" ELSE "rollback_checkout"
    /\ UNCHANGED <<remotes, refs, head, index, previous_branch, prloop, config,
                   file, prompt, outcome, elsewhere>>

\* git checkout <previous_branch>
RollbackCheckout ==
    /\ pc = "rollback_checkout"
    /\ \E ok \in Outcomes(previous_branch \in Branches) :
          /\ last_ok' = ok
          /\ IF ok
             THEN /\ head' = previous_branch
                  /\ pc' = "rollback_remote"
                  /\ UNCHANGED outcome
             ELSE /\ Fail("checkout")
                  /\ UNCHANGED head
    /\ UNCHANGED <<remotes, refs, index, config_dir, previous_branch, prloop,
                   config, file, prompt, elsewhere>>

\* git remote remove <local_remote>
RollbackRemote ==
    /\ pc = "rollback_remote"
    /\ \E ok \in Outcomes(local_remote \in remotes) :
          /\ last_ok' = ok
          /\ IF ok
             THEN /\ remotes' = remotes \ {local_remote}
                  /\ pc' = "rollback_branch"
                  /\ UNCHANGED outcome
             ELSE /\ Fail("remote remove")
                  /\ UNCHANGED remotes
    /\ UNCHANGED <<refs, head, index, config_dir, previous_branch, prloop,
                   config, file, prompt, elsewhere>>

\* git branch --delete --force <local_branch>, then the create_dir error
RollbackBranch ==
    /\ pc = "rollback_branch"
    /\ \E ok \in Outcomes(local_branch \in Branches /\ head # local_branch) :
          /\ last_ok' = ok
          /\ refs' = IF ok THEN DropBranch(refs, local_branch) ELSE refs
          /\ Fail(IF ok THEN "Could not create directory" ELSE "branch --delete")
    /\ UNCHANGED <<remotes, head, index, config_dir, previous_branch, prloop,
                   config, file, prompt, elsewhere>>

(* ------------------ the restore loop, run.rs:107 ----------------------- *)
\* end of the loop body: the next backed-up file, or the loop's exit
NextFile(k) == IF k + 1 > Len(backed_up_files) THEN "add_config" ELSE "restore_backup"

\* file_name.get(0..file_name.len() - 6).unwrap_or_default(), where the
\* subtraction did not overflow or wrapped (then the range is out of bounds)
patch_name(file_name) ==
    IF Len(file_name) < 6 THEN <<>> ELSE SubSeq(file_name, 1, Len(file_name) - 6)

\* restore_backup(file_name, contents, root)?, then the test for a patch
RestoreBackup ==
    /\ pc = "restore_backup"
    /\ file <= Len(backed_up_files)
    /\ \E ok \in BOOLEAN :
          /\ last_ok' = ok
          /\ IF ~ok
             THEN /\ Fail("Could not restore backups")
                  /\ UNCHANGED file
             ELSE IF patches = None
             THEN /\ file' = file + 1
                  /\ pc' = NextFile(file)
                  /\ UNCHANGED outcome
             ELSE IF Len(backed_up_files[file]) < 6 /\ overflow_checks
             THEN /\ pc' = "done"
                  /\ result' = "Panic"
                  /\ UNCHANGED <<file, err>>
             ELSE IF patch_name(backed_up_files[file]) \in patches[1]
             THEN /\ pc' = "am"
                  /\ UNCHANGED <<file, outcome>>
             ELSE /\ file' = file + 1
                  /\ pc' = NextFile(file)
                  /\ UNCHANGED outcome
    /\ UNCHANGED <<remotes, refs, head, index, config_dir, previous_branch,
                   prloop, config, prompt, elsewhere>>

\* git am --keep-cr --signoff <CONFIG_ROOT>/<file_name>.patch, with `?`
Am ==
    /\ pc = "am"
    /\ \E ok \in BOOLEAN :
          /\ last_ok' = ok
          /\ IF ok
             THEN /\ refs' = SetBranch(refs, head, Append(refs[head], Commit("patch", file)))
                  /\ pc' = "log"
                  /\ UNCHANGED outcome
             ELSE /\ Fail("Could not apply patch")
                  /\ UNCHANGED refs
    /\ UNCHANGED <<remotes, head, index, config_dir, previous_branch, prloop,
                   config, file, prompt, elsewhere>>

\* git log -1 --format=%B, with `?`
Log ==
    /\ pc = "log"
    /\ \E ok \in BOOLEAN :
          /\ last_ok' = ok
          /\ IF ok
             THEN /\ file' = file + 1
                  /\ pc' = NextFile(file)
                  /\ UNCHANGED outcome
             ELSE /\ Fail("log")
                  /\ UNCHANGED file
    /\ UNCHANGED <<remotes, refs, head, index, config_dir, previous_branch,
                   prloop, config, prompt, elsewhere>>

(* ------------------ commit and teardown, run.rs:143 -------------------- *)
\* git add <CONFIG_ROOT>, with `?`
AddConfig ==
    /\ pc = "add_config"
    /\ \E ok \in BOOLEAN :
          /\ last_ok' = ok
          /\ IF ok
             THEN /\ pc' = "commit_config"
                  /\ UNCHANGED outcome
             ELSE Fail("add")
    /\ UNCHANGED <<remotes, refs, head, index, config_dir, previous_branch,
                   prloop, config, file, prompt, elsewhere>>

\* git commit --message "<APP_NAME>: Restore configuration files", with `?`
CommitConfig ==
    /\ pc = "commit_config"
    /\ \E ok \in Outcomes(unmerged = {}) :
          /\ last_ok' = ok
          /\ IF ok
             THEN /\ refs' = SetBranch(refs, head, Append(refs[head], Commit("config", 0)))
                  /\ merging' = FALSE
                  /\ ours' = {}
                  /\ staged' = 0
                  /\ pc' = "switch"
                  /\ UNCHANGED <<unmerged, outcome>>
             ELSE /\ Fail("commit")
                  /\ UNCHANGED <<refs, index>>
    /\ UNCHANGED <<remotes, head, config_dir, previous_branch, prloop, config,
                   file, prompt, elsewhere>>

\* a switch that creates the new branch from the previous branch
Switch_FromPrevious ==
    /\ pc = "switch"
    /\ \E ok \in Outcomes(temporary_branch \notin Branches /\ previous_branch \in Branches) :
          /\ last_ok' = ok
          /\ IF ok
             THEN /\ refs' = SetBranch(refs, temporary_branch, refs[previous_branch])
                  /\ head' = temporary_branch
                  /\ pc' = "remove_remote"
                  /\ UNCHANGED outcome
             ELSE /\ Fail("switch")
                  /\ UNCHANGED <<refs, head>>
    /\ UNCHANGED <<remotes, index, config_dir, previous_branch, prloop, config,
                   file, prompt, elsewhere>>

\* git switch --create <temporary_branch>, with `?`
Switch ==
    /\ pc = "switch"
    /\ \E ok \in Outcomes(temporary_branch \notin Branches) :
          /\ last_ok' = ok
          /\ IF ok
             THEN /\ refs' = SetBranch(refs, temporary_branch, refs[head])
                  /\ head' = temporary_branch
                  /\ pc' = "remove_remote"
                  /\ UNCHANGED outcome
             ELSE /\ Fail("switch")
                  /\ UNCHANGED <<refs, head>>
    /\ UNCHANGED <<remotes, index, config_dir, previous_branch, prloop, config,
                   file, prompt, elsewhere>>

\* git remote remove <local_remote>, with `?`
RemoveRemote ==
    /\ pc = "remove_remote"
    /\ \E ok \in Outcomes(local_remote \in remotes) :
          /\ last_ok' = ok
          /\ IF ok
             THEN /\ remotes' = remotes \ {local_remote}
                  /\ pc' = "delete_branch"
                  /\ UNCHANGED outcome
             ELSE /\ Fail("remote remove")
                  /\ UNCHANGED remotes
    /\ UNCHANGED <<refs, head, index, config_dir, previous_branch, prloop,
                   config, file, prompt, elsewhere>>

\* git branch --delete --force <local_branch>, with `?`
DeleteBranch ==
    /\ pc = "delete_branch"
    /\ \E ok \in Outcomes(local_branch \in Branches /\ head # local_branch) :
          /\ last_ok' = ok
          /\ IF ok
             THEN /\ refs' = DropBranch(refs, local_branch)
                  /\ pc' = "confirm"
                  /\ UNCHANGED outcome
             ELSE /\ Fail("branch --delete")
                  /\ UNCHANGED refs
    /\ UNCHANGED <<remotes, head, index, config_dir, previous_branch, prloop,
                   config, file, prompt, elsewhere>>

(* ------------------ the guarded overwrite, run.rs:157 ------------------ *)
\* the arguments of the rename run.rs:169 executes
RenameArgs == <<"branch", "--move", "--force", temporary_branch, config_local_branch>>

\* the manual command with source and destination exchanged
ManualCommand_Swapped == <<"git", "branch", "--move", "--force", config_local_branch, temporary_branch>>

\* the command run.rs:178 formats for the user
ManualCommand == <<"git", "branch", "--move", "--force", temporary_branch, config_local_branch>>

\* std::process::exit(1)
ExitStatus == 1

\* Confirm::interact(): yes goes on to the rename, no prints the command and exits 1
Confirm ==
    /\ pc = "confirm"
    /\ \E answer \in BOOLEAN :
          IF answer
          THEN /\ confirmation' = "yes"
               /\ pc' = "rename"
               /\ UNCHANGED <<printed, exit_code, outcome>>
          ELSE /\ confirmation' = "no"
               /\ printed' = ManualCommand
               /\ exit_code' = ExitStatus
               /\ pc' = "done"
               /\ result' = "Exit1"
               /\ UNCHANGED err
    /\ UNCHANGED <<remotes, refs, head, index, config_dir, previous_branch,
                   prloop, config, file, last_ok, elsewhere>>

\* git branch --move --force <from> <to>: <to> takes the history of <from>
branch_move_force(r, argv) == SetBranch(DropBranch(r, argv[4]), argv[5], r[argv[4]])

\* git branch --move --force <temporary_branch> <config.local_branch>, with `?`
Rename ==
    /\ pc = "rename"
    /\ \E ok \in Outcomes(RenameArgs[4] \in Branches) :
          /\ last_ok' = ok
          /\ IF ok
             THEN /\ refs' = branch_move_force(refs, RenameArgs)
                  /\ head' = IF head = RenameArgs[4] THEN RenameArgs[5] ELSE head
                  /\ pc' = "done"
                  /\ result' = "Ok"
                  /\ UNCHANGED err
             ELSE /\ Fail("branch --move")
                  /\ UNCHANGED <<refs, head>>
    /\ UNCHANGED <<remotes, index, config_dir, previous_branch, prloop, config,
                   file, prompt, elsewhere>>

Next ==
    \/ RemoteAdd
    \/ RemoteAddCleanup
    \/ Fetch
    \/ FetchCleanup
    \/ RevParse
    \/ Checkout
    \/ CheckoutCleanupBranch
    \/ CheckoutCleanupRemote
    \/ FetchPullRequest
    \/ Merge
    \/ Diff
    \/ CheckoutOurs
    \/ AddPath
    \/ MergeAbort
    \/ CommitPullRequest
    \/ CreateDir
    \/ RollbackCheckout
    \/ RollbackRemote
    \/ RollbackBranch
    \/ RestoreBackup
    \/ Am
    \/ Log
    \/ AddConfig
    \/ CommitConfig
    \/ Switch
    \/ RemoveRemote
    \/ DeleteBranch
    \/ Confirm
    \/ Rename

Spec == Init /\ [][Next]_vars

(* ================= get_git_output, git_commands.rs:6 ==================== *)
\* no other function is being called
RunIdle ==
    /\ pc = "idle"
    /\ remotes = remotes0
    /\ refs = [b \in {other_branch} |-> BaseHistory]
    /\ refs0 = refs
    /\ head = other_branch
    /\ merging = FALSE
    /\ unmerged = {}
    /\ ours = {}
    /\ staged = 0
    /\ config_dir = TRUE
    /\ previous_branch = ""
    /\ pr = 1
    /\ files_with_conflicts = <<>>
    /\ pre_merge = <<FALSE, {}, {}, 0>>
    /\ backed_up_files = <<>>
    /\ patches = None
    /\ overflow_checks = FALSE
    /\ file = 1
    /\ attempted = {}
    /\ reported = {}
    /\ printed = <<>>
    /\ last_ok = TRUE
    /\ confirmation = "unasked"
    /\ exit_code = -1
    /\ result = "running"
    /\ err = ""

\* a byte that is not valid UTF-8, and the character lossy decoding puts for it
InvalidByte == "0xFF"
ReplacementCharacter == "U+FFFD"
Whitespace == {" ", "\n", "\t"}

\* String::from_utf8_lossy
from_utf8_lossy(bytes) ==
    [n \in 1..Len(bytes) |->
        IF bytes[n] = InvalidByte THEN ReplacementCharacter ELSE bytes[n]]

\* str::trim_end
RECURSIVE trim_end(_)
trim_end(s) ==
    IF s # <<>> /\ s[Len(s)] \in Whitespace
    THEN trim_end(SubSeq(s, 1, Len(s) - 1))
    ELSE s

\* args.join(sep)
RECURSIVE join(_, _)
join(strings, sep) ==
    IF strings = <<>> THEN <<>>
    ELSE IF Len(strings) = 1 THEN strings[1]
    ELSE strings[1] \o sep \o join(Tail(strings), sep)

\* ExitStatus::success
success(status) == status = 0

\* the error of a failed command, without the captured stderr
get_git_output_NoStderr(out, argv) ==
    IF success(out.status)
    THEN [ok |-> TRUE, text |-> trim_end(from_utf8_lossy(out.stdout))]
    ELSE [ok |-> FALSE,
          text |-> <<"Git command failed.\nCommand: git ">> \o join(argv, <<" ">>)
                   \o <<"\nStdout: ">> \o from_utf8_lossy(out.stdout)
                   \o <<"\nStderr: ">>]

\* get_git_output(output, args); the fixed parts of the message are one
\* element each, the rest is one element per character
get_git_output(out, argv) ==
    IF success(out.status)
    THEN [ok |-> TRUE, text |-> trim_end(from_utf8_lossy(out.stdout))]
    ELSE [ok |-> FALSE,
          text |-> <<"Git command failed.\nCommand: git ">> \o join(argv, <<" ">>)
                   \o <<"\nStdout: ">> \o from_utf8_lossy(out.stdout)
                   \o <<"\nStderr: ">> \o from_utf8_lossy(out.stderr)]

\* what a finished git process can hand over
ExitCodes == {0, 1, 128}
Stdouts ==
    {<<>>, <<"a">>, <<"a", "\n">>, <<"a", " ", "b", " ", "\n", "\n">>, <<"\n", "a">>, <<InvalidByte>>, <<"a", InvalidByte, "\n">>}
Stderrs == {<<>>, <<"e">>, <<"e", "\n">>, <<"e", InvalidByte>>}
ArgVectors == {<<>>, <<<<"d", "i", "f", "f">>>>, <<<<"l", "o", "g">>, <<"-", "1">>>>, <<<<"a", "m">>, <<"a", " ", "b">>, <<>>>>}

InitOutput ==
    /\ RunIdle
    /\ FlagIdle
    /\ GenPatchIdle
    /\ output \in [status : ExitCodes, stdout : Stdouts, stderr : Stderrs]
    /\ args \in ArgVectors
    /\ returned = <<>>

GetGitOutput ==
    /\ returned = <<>>
    /\ returned' = <<get_git_output(output, args)>>
    /\ UNCHANGED <<output, args, runvars, flagvars, genvars>>

NextOutput == GetGitOutput

SpecOutput == InitOutput /\ [][NextOutput]_vars

(* ================= extract_value_from_flag, flags.rs:26 ================= *)
\* str::starts_with
starts_with(s, prefix) ==
    Len(prefix) <= Len(s) /\ SubSeq(s, 1, Len(prefix)) = prefix

\* str::get(n..): None when n is past the end of the string
get_from(s, n) == IF n <= Len(s) THEN Some(SubSeq(s, n + 1, Len(s))) ELSE None

\* the value cut after the length of the short form whichever form matched
extract_value_from_flag_ShortLen(a, f) ==
    IF starts_with(a, f.short) THEN get_from(a, Len(f.short))
    ELSE IF starts_with(a, f.long) THEN get_from(a, Len(f.short))
    ELSE None

extract_value_from_flag(a, f) ==
    IF starts_with(a, f.short) THEN get_from(a, Len(f.short))
    ELSE IF starts_with(a, f.long) THEN get_from(a, Len(f.long))
    ELSE None

\* the flag of the doc test, the flags of gen_patch, and flags whose forms overlap
MY_FLAG == [short |-> <<"-", "r", "=">>, long |-> <<"-", "-", "r", "e", "m", "o", "t", "e", "-", "n", "a", "m", "e", "=">>]
GEN_PATCH_NAME_FLAG == [short |-> <<"-", "n", "=">>, long |-> <<"-", "-", "p", "a", "t", "c", "h", "-", "f", "i", "l", "e", "n", "a", "m", "e", "=">>]
OverlappingFlag == [short |-> <<"-", "n">>, long |-> <<"-", "n", "=">>]
EmptyShortFlag == [short |-> <<>>, long |-> <<"-", "-">>]
Flags == {MY_FLAG, GEN_PATCH_NAME_FLAG, OverlappingFlag, EmptyShortFlag}
Args ==
    {<<>>, <<"-", "-", "r", "e", "m", "o", "t", "e", "-", "n", "a", "m", "e", "=", "a", "b", "c">>, <<"-", "r", "=", "a", "b", "c", "d", "e", "f", "g">>, <<"-", "m", "=", "a", "b", "c", "d", "e", "f", "g">>, <<"-", "n", "=", "f", "o", "o">>, <<"-", "-", "p", "a", "t", "c", "h", "-", "f", "i", "l", "e", "n", "a", "m", "e", "=", "f", "o", "o">>, <<"-", "n", "=">>, <<"-", "n">>,
     <<"-">>, <<"-", "-">>, <<"-", "-", "p", "a", "t", "c", "h", "-", "f", "i", "l", "e", "n", "a", "m", "e">>, <<"a", "b", "c">>, <<"-", "r">>, <<"-", "-", "r", "e", "m", "o", "t", "e", "-", "n", "a", "m", "e", "=">>, <<"x", "-", "n", "=", "f", "o", "o">>}

InitFlag ==
    /\ RunIdle
    /\ OutputIdle
    /\ GenPatchIdle
    /\ arg \in Args
    /\ flag \in Flags
    /\ extracted = <<>>

ExtractValueFromFlag ==
    /\ extracted = <<>>
    /\ extracted' = <<extract_value_from_flag(arg, flag)>>
    /\ UNCHANGED <<arg, flag, runvars, outputvars, genvars>>

NextFlag == ExtractValueFromFlag

SpecFlag == InitFlag /\ [][NextFlag]_vars

(* ================= gen_patch, commands/gen_patch.rs:29 ================== *)
MaxArgs == 3

HELP_FLAG == [short |-> <<"-", "h">>, long |-> <<"-", "-", "h", "e", "l", "p">>]
VERSION_FLAG == [short |-> <<"-", "v">>, long |-> <<"-", "-", "v", "e", "r", "s", "i", "o", "n">>]
GEN_PATCH_FLAGS == {GEN_PATCH_NAME_FLAG, HELP_FLAG, VERSION_FLAG}

\* is_valid_flag(arg, flags): arg begins with a form of one of the flags
is_valid_flag(a, flags) ==
    \E f \in flags : starts_with(a, f.short) \/ starts_with(a, f.long)

\* char::is_alphanumeric, for the characters of the model
Alphanumeric ==
    {
     "a", "b", "c", "d", "e", "f", "g", "h", "i", "j", "k", "l", "m", "n",
     "o", "p", "q", "r", "s", "t", "u", "v", "w", "x", "y", "z", "A", "B",
     "C", "D", "E", "F", "G", "H", "I", "J", "K", "L", "M", "N", "O", "P",
     "Q", "R", "S", "T", "U", "V", "W", "X", "Y", "Z", "0", "1", "2", "3",
     "4", "5", "6", "7", "8", "9"}

\* is_valid_branch_name(name): every character may occur in a branch name
is_valid_branch_name(name) ==
    \A n \in 1..Len(name) : name[n] \in Alphanumeric \cup {".", "-", "_", "/"}

\* normalize_commit_msg(msg): characters that cannot be in a file name become "-"
normalize_commit_msg(msg) ==
    [n \in 1..Len(msg) |->
        IF msg[n] \in Alphanumeric \cup {".", "-", "_"} THEN msg[n] ELSE "-"]

\* the arguments gen_patch is run with
DoubleDash == <<"-", "-">>
NameFlagFoo == <<"-", "n", "=", "f", "o", "o">>
NameFlagBad == <<"-", "n", "=", "a", " ", "b">>
UnknownFlag == <<"-", "x">>
HashAbc == <<"a", "b", "c">>
Tokens == {DoubleDash, NameFlagFoo, NameFlagBad, UnknownFlag, HashAbc}
ArgLists == UNION {[1..n -> Tokens] : n \in 0..MaxArgs}
\* what `git log --format=%B --max-count=1` prints for a commit
Message == <<"F", "i", "x", " ", "a", "/", "b">>

InitGenPatch ==
    /\ RunIdle
    /\ OutputIdle
    /\ FlagIdle
    /\ gen_pc = "scan"
    /\ command_args \in ArgLists
    /\ args_iter = command_args
    /\ no_more_flags = FALSE
    /\ commit_hashes_with_maybe_custom_patch_filenames = <<>>
    /\ config_path_exists \in BOOLEAN
    /\ patch_commit = 1
    /\ commit_msg = None
    /\ patch_files = {}
    /\ gen_reported = {}
    /\ gen_result = "running"

\* next_arg.and_then(|n| extract_value_from_flag(n, &GEN_PATCH_NAME_FLAG)
\*     .filter(|b| is_valid_branch_name(b)))
maybe_custom_patch_filename(next_arg) ==
    IF next_arg = None THEN None
    ELSE IF extract_value_from_flag(next_arg[1], GEN_PATCH_NAME_FLAG) = None THEN None
    ELSE IF is_valid_branch_name(extract_value_from_flag(next_arg[1], GEN_PATCH_NAME_FLAG)[1])
    THEN extract_value_from_flag(next_arg[1], GEN_PATCH_NAME_FLAG)
    ELSE None

\* args.peek()
peek(iter) == IF iter = <<>> THEN None ELSE Some(Head(iter))

\* one turn of `while let Some(arg) = args.next()`
ScanArg ==
    /\ gen_pc = "scan"
    /\ args_iter # <<>>
    /\ IF Head(args_iter) = DoubleDash
       THEN /\ no_more_flags' = TRUE
            /\ args_iter' = Tail(args_iter)
            /\ UNCHANGED <<gen_pc, gen_result,
                           commit_hashes_with_maybe_custom_patch_filenames>>
       ELSE IF starts_with(Head(args_iter), <<"-">>) /\ ~no_more_flags
       THEN /\ args_iter' = Tail(args_iter)
            /\ gen_pc' = IF is_valid_flag(Head(args_iter), GEN_PATCH_FLAGS)
                         THEN "scan" ELSE "done"
            /\ gen_result' = IF is_valid_flag(Head(args_iter), GEN_PATCH_FLAGS)
                             THEN gen_result ELSE "Exit1"
            /\ UNCHANGED <<no_more_flags,
                           commit_hashes_with_maybe_custom_patch_filenames>>
       ELSE /\ commit_hashes_with_maybe_custom_patch_filenames' =
                  Append(commit_hashes_with_maybe_custom_patch_filenames,
                         <<Head(args_iter),
                           maybe_custom_patch_filename(peek(Tail(args_iter)))>>)
            /\ args_iter' =
                  IF maybe_custom_patch_filename(peek(Tail(args_iter))) # None
                  THEN Tail(Tail(args_iter))
                  ELSE Tail(args_iter)
            /\ UNCHANGED <<gen_pc, gen_result, no_more_flags>>
    /\ UNCHANGED <<command_args, config_path_exists, patch_commit, commit_msg,
                   patch_files, gen_reported, runvars, outputvars, flagvars>>

\* if !config_path.exists() { fs::create_dir(&config_path)? }
ConfigPath ==
    /\ gen_pc = "scan"
    /\ args_iter = <<>>
    /\ \E ok \in BOOLEAN :
          /\ config_path_exists' = (config_path_exists \/ ok)
          /\ gen_pc' = IF config_path_exists \/ ok THEN "diff" ELSE "done"
          /\ gen_result' = IF config_path_exists \/ ok THEN gen_result ELSE "Err"
    /\ UNCHANGED <<command_args, args_iter, no_more_flags,
                   commit_hashes_with_maybe_custom_patch_filenames, patch_commit,
                   commit_msg, patch_files, gen_reported, runvars, outputvars,
                   flagvars>>

\* GIT(["diff", "<hash>^", hash]), else fail! and continue
PatchDiff ==
    /\ gen_pc = "diff"
    /\ patch_commit <= Len(commit_hashes_with_maybe_custom_patch_filenames)
    /\ \E ok \in BOOLEAN :
          IF ok
          THEN /\ gen_pc' = "log"
               /\ UNCHANGED <<patch_commit, gen_reported>>
          ELSE /\ gen_reported' = gen_reported \cup {patch_commit}
               /\ patch_commit' = patch_commit + 1
               /\ UNCHANGED gen_pc
    /\ UNCHANGED <<command_args, args_iter, no_more_flags,
                   commit_hashes_with_maybe_custom_patch_filenames,
                   config_path_exists, commit_msg, patch_files, gen_result,
                   runvars, outputvars, flagvars>>

\* GIT(["log", "--format=%B", "--max-count=1", hash]): the argument of
\* unwrap_or is evaluated whether or not a custom name was given
PatchLog ==
    /\ gen_pc = "log"
    /\ commit_msg' \in {None, Some(Message)}
    /\ gen_pc' = "create"
    /\ UNCHANGED <<command_args, args_iter, no_more_flags,
                   commit_hashes_with_maybe_custom_patch_filenames,
                   config_path_exists, patch_commit, patch_files, gen_reported,
                   gen_result, runvars, outputvars, flagvars>>

\* the name that takes the commit message before the custom file name
patch_filename_MessageFirst(maybe_custom_patch_name, msg, patch_commit_hash) ==
    (IF msg # None THEN normalize_commit_msg(msg[1])
     ELSE IF maybe_custom_patch_name # None THEN maybe_custom_patch_name[1]
     ELSE patch_commit_hash) \o DotPatch

\* maybe_custom_patch_name.unwrap_or(log.map(normalize_commit_msg)
\*     .unwrap_or(hash)), then format!("{patch_filename}.patch")
patch_filename(maybe_custom_patch_name, msg, patch_commit_hash) ==
    (IF maybe_custom_patch_name # None THEN maybe_custom_patch_name[1]
     ELSE IF msg # None THEN normalize_commit_msg(msg[1])
     ELSE patch_commit_hash) \o DotPatch

\* File::create(&patch_file_path)?
PatchCreate ==
    /\ gen_pc = "create"
    /\ \E ok \in BOOLEAN :
          /\ patch_files' =
                IF ok
                THEN patch_files \cup
                     {patch_filename(
                        commit_hashes_with_maybe_custom_patch_filenames[patch_commit][2],
                        commit_msg,
                        commit_hashes_with_maybe_custom_patch_filenames[patch_commit][1])}
                ELSE patch_files
          /\ gen_pc' = IF ok THEN "write" ELSE "done"
          /\ gen_result' = IF ok THEN gen_result ELSE "Err"
    /\ UNCHANGED <<command_args, args_iter, no_more_flags,
                   commit_hashes_with_maybe_custom_patch_filenames,
                   config_path_exists, patch_commit, commit_msg, gen_reported,
                   runvars, outputvars, flagvars>>

\* file.write_all(patch_contents.as_bytes())?, then success! and the next commit
PatchWrite ==
    /\ gen_pc = "write"
    /\ \E ok \in BOOLEAN :
          /\ gen_pc' = IF ok THEN "diff" ELSE "done"
          /\ gen_result' = IF ok THEN gen_result ELSE "Err"
          /\ patch_commit' = IF ok THEN patch_commit + 1 ELSE patch_commit
    /\ UNCHANGED <<command_args, args_iter, no_more_flags,
                   commit_hashes_with_maybe_custom_patch_filenames,
                   config_path_exists, commit_msg, patch_files, gen_reported,
                   runvars, outputvars, flagvars>>

\* the `for` is over: Ok(())
GenPatchReturn ==
    /\ gen_pc = "diff"
    /\ patch_commit > Len(commit_hashes_with_maybe_custom_patch_filenames)
    /\ gen_pc' = "done"
    /\ gen_result' = "Ok"
    /\ UNCHANGED <<command_args, args_iter, no_more_flags,
                   commit_hashes_with_maybe_custom_patch_filenames,
                   config_path_exists, patch_commit, commit_msg, patch_files,
                   gen_reported, runvars, outputvars, flagvars>>

NextGenPatch ==
    \/ ScanArg
    \/ ConfigPath
    \/ PatchDiff
    \/ PatchLog
    \/ PatchCreate
    \/ PatchWrite
    \/ GenPatchReturn

SpecGenPatch == InitGenPatch /\ [][NextGenPatch]_vars

(* ======================= the claims ==================================== *)
\* the ref of the target branch, <<>> if the branch does not exist
TargetRef(r) == IF config_local_branch \in DOMAIN r THEN <<r[config_local_branch]>> ELSE <<>>

\* the commits of a history, as a set
Commits(h) == {h[n] : n \in 1..Len(h)}

\* positions of `run` inside the pull-request loop
PullRequestPcs == {"pr_fetch", "merge", "diff", "checkout_ours", "add_path", "merge_abort", "pr_commit"}

\* positions inside merge_into_main after the merge command failed
ResolvePcs == {"diff", "checkout_ours", "add_path", "merge_abort"}

\* positions of the compensating rollback
RollbackPcs == {"rollback_checkout", "rollback_remote", "rollback_branch"}

\* C1: along every execution of run, the ref of config.local_branch changes
\* only in the forced rename that follows a yes to the confirmation prompt.
C1_TargetMovedOnlyByRename ==
    [][TargetRef(refs') # TargetRef(refs) => (pc = "rename" /\ confirmation = "yes")]_vars

\* C1 witness: the run got through failures and the rename moved the target
C1_Witness ==
    /\ result = "Ok"
    /\ reported # {}
    /\ TargetRef(refs) # TargetRef(refs0)
    /\ previous_branch = config_local_branch

\* C2: if staging (add_remote_branch, checkout_from_remote) fails, the remotes
\* and the branches of the repository are the ones it had before the call.
C2_FailedStagingLeavesNothing ==
    (result = "Err" /\ attempted = {}) =>
        (remotes = remotes0 /\ Branches = DOMAIN refs0)

\* C3: whenever run stops after staging succeeded, the ephemeral remote and
\* the ephemeral branch no longer exist.
C3_StoppedRunLeavesNoEphemeral ==
    (pc = "done" /\ attempted # {}) =>
        (local_remote \notin remotes /\ local_branch \notin Branches)

\* the index with no merge in progress and nothing staged
CleanIndex == <<FALSE, {}, {}, 0>>

\* the paths the merge in progress left in conflict, resolved since or not
Conflicted == unmerged \cup ours

\* merge_into_main is handling a conflict of this merge attempt
HitConflict == pc \in ResolvePcs /\ pre_merge = CleanIndex /\ Conflicted # {}

\* ... with a conflicted path that does not end in .md
NonMdConflict == HitConflict /\ \E p \in Conflicted : ~ends_with(p, DotMd)

\* ... with every conflicted path ending in .md
AllMdConflict == HitConflict /\ \A p \in Conflicted : ends_with(p, DotMd)

\* merge_into_main returned an error and the index is as before the merge
AbortedAndRestored ==
    /\ pc' # "pr_commit"
    /\ pr \in reported'
    /\ <<merging', unmerged', ours', staged'>> = pre_merge

\* C4: on a conflict with a path that does not end in .md, in whatever order
\* the paths are listed, merge_into_main returns an error with the merge
\* aborted and the index as it was before the merge attempt.
C4_NonMdConflictIsRolledBack ==
    [][(NonMdConflict /\ pc' \notin ResolvePcs) => AbortedAndRestored]_vars

\* merge_into_main returned Ok with every conflicted path staged as ours
ResolvedToOurs ==
    /\ pc' = "pr_commit"
    /\ pr \notin reported'
    /\ merging'
    /\ unmerged' = {}
    /\ ours' = Conflicted

\* C5: on a conflict whose paths all end in .md, merge_into_main returns a
\* non-error result with every conflicted path resolved to ours and staged,
\* and the merge not aborted.
C5_MdConflictIsResolved ==
    [][(AllMdConflict /\ pc' \notin ResolvePcs) => ResolvedToOurs]_vars

\* a step of the loop stays in the loop or leaves it for the restore step, and
\* leaves a pull request unmerged only with its failure reported
LoopGoesOn ==
    /\ pc' \in PullRequestPcs \cup {"create_dir"}
    /\ result' = "running"
    /\ pr' \in {pr, pr + 1}
    /\ (pr' # pr /\ refs' = refs) => pr \in reported'

EveryLoopStepGoesOn == [][(pc \in PullRequestPcs) => LoopGoesOn]_vars

\* C6: in the pull-request loop a failed fetch or merge never ends the run:
\* it is reported for that pull request, every pull request is attempted and
\* the run goes on to the restore step.
C6_PullRequestFailureContinues ==
    EveryLoopStepGoesOn /\ [](pc = "create_dir" => attempted = 1..NumPRs)

\* C6 witness: the first pull request failed, the second one was merged after
\* it, and the run is at the restore step
C6_Witness ==
    /\ pc = "create_dir"
    /\ 1 \in reported
    /\ Commit("pr", 2) \in Commits(refs[head])

\* C7: a failed `git am` for one backed-up patch file does not abort the run.
C7_PatchFailureDoesNotAbort ==
    ~(result = "Err" /\ err = "Could not apply patch")

\* C8: on a declined confirmation the new branch still has its temporary
\* name, the target branch is unchanged, the process exits non-zero and the
\* printed command has the arguments of the rename.
C8_DeclineKeepsTarget ==
    confirmation = "no" =>
        /\ temporary_branch \in Branches
        /\ Commit("config", 0) \in Commits(refs[temporary_branch])
        /\ TargetRef(refs) = TargetRef(refs0)
        /\ exit_code # 0
        /\ exit_code # -1
        /\ printed = <<"git">> \o RenameArgs

\* C8 witness: the user declined, with a target branch that exists
C8_Witness ==
    /\ confirmation = "no"
    /\ pc = "done"
    /\ config_local_branch \in Branches

\* the state the compensating rollback is to establish
RolledBack ==
    /\ head = previous_branch
    /\ local_remote \notin remotes
    /\ local_branch \notin Branches

\* C9: when create_dir fails after staging, run checks out the previous
\* branch, removes the ephemeral remote and deletes the ephemeral branch
\* before it returns, also when a rollback command fails.
C9_RollbackIsComplete ==
    [][(pc \in RollbackPcs /\ pc' = "done") => RolledBack']_vars

\* C10: at the confirmation prompt the temporary branch holds the merged and
\* committed state and is checked out, the ephemeral remote and branch are
\* gone, and the temporary branch is all the run has added.
C10_PromptState ==
    pc = "confirm" =>
        /\ head = temporary_branch
        /\ temporary_branch \in Branches
        /\ refs[temporary_branch][1] = Commit("upstream", 0)
        /\ refs[temporary_branch][Len(refs[temporary_branch])] = Commit("config", 0)
        /\ \A n \in (1..NumPRs) \ reported : Commit("pr", n) \in Commits(refs[temporary_branch])
        /\ local_remote \notin remotes
        /\ local_branch \notin Branches
        /\ remotes = remotes0
        /\ Branches = DOMAIN refs0 \cup {temporary_branch}
        /\ \A b \in DOMAIN refs0 : refs[b] = refs0[b]

\* C10 witness: the prompt is reached after a merged pull request, a failed
\* one and an applied patch
C10_Witness ==
    /\ pc = "confirm"
    /\ reported # {}
    /\ \E n \in 1..NumPRs : Commit("pr", n) \in Commits(refs[temporary_branch])
    /\ \E n \in 1..3 : Commit("patch", n) \in Commits(refs[temporary_branch])

\* merge_into_main returned Ok from its Err arm with a conflict it resolved
ResolvedAConflict ==
    /\ Conflicted' # {}
    /\ unmerged' = {}

\* C18: merge_into_main returns Ok only when the merge command succeeded or
\* when at least one conflicted path was listed and all of them were
\* resolved; a failed merge with an empty listing is an error.
C18_FailedMergeWithoutConflictIsError ==
    [][(pc \in ResolvePcs /\ pc' = "pr_commit") => ResolvedAConflict]_vars

\* the add-remote failure is returned with no command issued after it
ReturnsAddRemoteError ==
    /\ pc' = "done"
    /\ result' = "Err"
    /\ err' = "Could not add remote"

\* C19: when `git remote add` fails, add_remote_branch issues no further git
\* command and returns the add-remote failure.
C19_FailedRemoteAddStopsThere ==
    [][(pc = "remote_add" /\ ~last_ok') => ReturnsAddRemoteError]_vars

\* a step that leaves the work branch and the index alone and moves to the
\* next pull request only with the failure of this one reported
NothingMerged ==
    /\ refs' = refs
    /\ <<merging', unmerged', ours', staged'>> = <<merging, unmerged, ours, staged>>
    /\ pr' # pr => pr \in reported'

\* C13: the fetch-and-merge step for a pull request that is already merged
\* into the work branch reports a failure for it and leaves the branch's
\* commits, the index and the work tree as they were.
C13_MergedAgainChangesNothing ==
    [][(pc \in PullRequestPcs /\ AlreadyMerged) => NothingMerged]_vars

\* the backed-up file is named <name>.patch for a configured patch <name>
IsConfiguredPatch(file_name) ==
    /\ patches # None
    /\ ends_with(file_name, DotPatch)
    /\ SubSeq(file_name, 1, Len(file_name) - Len(DotPatch)) \in patches[1]

\* after a file was restored, git am is what comes next exactly for a
\* configured patch, and the file does not make the run panic
AppliesOnlyConfiguredPatch ==
    /\ pc' = "am" <=> IsConfiguredPatch(backed_up_files[file])
    /\ result' # "Panic"

\* C17: in the restore loop git am is invoked for a backed-up file if and only
\* if the file is <name>.patch for a configured patch <name>; a file of any
\* other name gets no patch applied and neither fails nor panics the run.
C17_AmOnlyForConfiguredPatchFiles ==
    [][(pc = "restore_backup" /\ last_ok') => AppliesOnlyConfiguredPatch]_vars

\* C11: the restore step of run succeeds when the configuration directory
\* still exists after the branch switch as it does when the directory is gone
\* (and then writes every backed-up file back with its contents): the run goes
\* on to restore the backed-up files.
C11_RestoreToleratesExistingDirectory ==
    [][(pc = "create_dir" /\ config_dir) => pc' = "restore_backup"]_vars

\* the fetch and merge attempt of pull request n is over: it was reported as
\* failed or its merge was committed
Finished(n) == n \in reported \/ Commit("pr", n) \in Commits(refs[head])

Contains(s, sub) ==
    \E n \in 0..(Len(s) - Len(sub)) : SubSeq(s, n + 1, n + Len(sub)) = sub

\* the exit status decides between Ok and Err
OkIffStatusZero == returned[1].ok <=> output.status = 0

\* C14 as stated: Ok exactly on exit status zero; on any other status the
\* error holds the argument vector, the captured stdout and the captured
\* stderr; and nothing the command wrote is missing from the result.
C14_NoOutputDropped ==
    returned # <<>> =>
        /\ OkIffStatusZero
        /\ output.status # 0 => Contains(returned[1].text, join(args, <<" ">>))
        /\ Contains(returned[1].text, from_utf8_lossy(output.stdout))
        /\ Contains(returned[1].text, from_utf8_lossy(output.stderr))

\* C14 amended: Ok exactly on exit status zero; on any other status the
\* error holds the arguments joined by spaces and the lossy decodings of the
\* captured stdout and stderr; on status zero the value is the lossy decoding
\* of stdout without its trailing whitespace, and stderr is not part of it.
C14_StatusDecidesErrorCarriesOutput ==
    returned # <<>> =>
        /\ OkIffStatusZero
        /\ output.status # 0 =>
              /\ Contains(returned[1].text, join(args, <<" ">>))
              /\ Contains(returned[1].text, from_utf8_lossy(output.stdout))
              /\ Contains(returned[1].text, from_utf8_lossy(output.stderr))
        /\ output.status = 0 =>
              \E n \in 0..Len(output.stdout) :
                 /\ returned[1].text = SubSeq(from_utf8_lossy(output.stdout), 1, n)
                 /\ \A m \in (n + 1)..Len(output.stdout) : output.stdout[m] \in Whitespace
                 /\ n > 0 => output.stdout[n] \notin Whitespace

\* C14 witness: a command that failed after writing to both streams was
\* turned into an error
C14_Witness ==
    /\ returned # <<>>
    /\ output.status = 128
    /\ output.stdout = <<"a", " ", "b", " ", "\n", "\n">>
    /\ output.stderr = <<"e", "\n">>
    /\ Len(args) = 2
    /\ ~returned[1].ok

\* a is prefix followed by rest
Splits(a, prefix, rest) == a = prefix \o rest

\* a begins with prefix
Begins(a, prefix) == \E n \in 0..Len(a) : SubSeq(a, 1, n) = prefix

\* C15: extract_value_from_flag returns Some(the rest of arg after the
\* prefix) when arg starts with the short or the long form of the flag, and
\* None when it starts with neither.
C15_ExtractsRestAfterPrefix ==
    extracted # <<>> =>
        IF Begins(arg, flag.short) \/ Begins(arg, flag.long)
        THEN /\ extracted[1] # None
             /\ \/ Splits(arg, flag.short, extracted[1][1])
                \/ Splits(arg, flag.long, extracted[1][1])
        ELSE extracted[1] = None

\* C15 witness: the value after the long form of the doc test's flag
C15_Witness ==
    /\ arg = <<"-", "-", "r", "e", "m", "o", "t", "e", "-", "n", "a", "m", "e", "=", "a", "b", "c">>
    /\ flag = MY_FLAG
    /\ extracted = <<Some(<<"a", "b", "c">>)>>

\* the arguments that come after the first "--"
HasDoubleDash == \E n \in 1..Len(command_args) : command_args[n] = DoubleDash
FirstDoubleDash ==
    CHOOSE n \in 1..Len(command_args) :
        /\ command_args[n] = DoubleDash
        /\ \A m \in 1..(n - 1) : command_args[m] # DoubleDash
AfterDoubleDash == SubSeq(command_args, FirstDoubleDash + 1, Len(command_args))

\* the vector ends with one entry per literal argument, none with a file name
EndsWithLiterals(entries, literals) ==
    /\ Len(entries) >= Len(literals)
    /\ \A n \in 1..Len(literals) :
          entries[Len(entries) - Len(literals) + n] = <<literals[n], None>>

\* C16: when the scan of gen_patch is over, every argument that came after a
\* "--" is in the vector as a commit reference of its own: none was taken as
\* a flag, skipped, or consumed as the file name of the argument before it.
C16_AfterDoubleDashAllLiteral ==
    (gen_pc \notin {"idle", "scan"} /\ gen_result # "Exit1" /\ HasDoubleDash) =>
        EndsWithLiterals(commit_hashes_with_maybe_custom_patch_filenames,
                         AfterDoubleDash)

\* the entry of the commit the second loop works on
ThisCommit == commit_hashes_with_maybe_custom_patch_filenames[patch_commit]

\* the name the claim gives the patch file of the commit
ClaimedFileName ==
    IF ThisCommit[2] # None THEN ThisCommit[2][1] \o DotPatch
    ELSE IF commit_msg # None THEN normalize_commit_msg(commit_msg[1]) \o DotPatch
    ELSE ThisCommit[1] \o DotPatch

\* a commit whose diff failed is reported and passed over, with no file written
SkippedAndReported ==
    /\ patch_commit \in gen_reported'
    /\ patch_files' = patch_files
    /\ patch_commit' = patch_commit + 1
    /\ gen_pc' = "diff"
    /\ gen_result' = "running"

\* one step of the loop over the commits does what the claim says
NamesOrSkips ==
    /\ (gen_pc = "diff" /\ gen_pc' # "log" /\ gen_result' # "Ok") => SkippedAndReported
    /\ (gen_pc = "create" /\ gen_pc' = "write") =>
          patch_files' = patch_files \cup {ClaimedFileName}
    /\ gen_pc \notin {"diff", "create"} => patch_files' = patch_files

\* C20: the patch file of a commit is named after the custom file name if one
\* was given, else after the normalized commit message if it could be read,
\* else after the hash; a commit whose diff cannot be produced is reported
\* and skipped with no file written, and the loop goes on to the next commit.
C20_PatchFileNaming == [][NamesOrSkips]_vars

\* C20 witness: the first commit was skipped for its diff and the second one
\* got its file, named after the commit message
C20_Witness ==
    /\ gen_result = "Ok"
    /\ gen_reported = {1}
    /\ Len(commit_hashes_with_maybe_custom_patch_filenames) = 2
    /\ patch_files = {<<"F", "i", "x", "-", "a", "-", "b", ".", "p", "a", "t", "c", "h">>}
====
